---- MODULE Spec2Model ----
(***************************************************************************)
(* Usability Testing Tool (src/Main.py): four form stages that append one  *)
(* record each to a CSV store through pandas, a session-scoped task timer, *)
(* and a report that reloads the four stores and shows two averages.       *)
(*                                                                         *)
(* Streamlit reruns main() from top to bottom on every widget event, so    *)
(* every action below is one whole script run: the handler of the widget   *)
(* that fired, followed by the report block (lines 181-217).               *)
(*                                                                         *)
(* Text is a sequence of one-character strings, so that what to_csv writes *)
(* and what read_csv parses back are different things; a fixed string that *)
(* is never read digit by digit (a column name, a radio option) is a text  *)
(* of one element.  A CSV file is the sequence of its rows, a row the      *)
(* sequence of its cell texts (the quoting of commas, quotes and newlines  *)
(* by the csv writer and its undoing by the reader are not modelled).  The *)
(* clock counts whole seconds.                                             *)
(***************************************************************************)
EXTENDS Integers, Sequences, FiniteSets, TLC

\* ------------------------------------------------------------------ bounds
MaxTime == 1        \* the clock runs over 0..MaxTime
MaxRecords == 2     \* records appended in one session, over all stores
MaxExitRecords == 3 \* the same, where only the exit questionnaire is submitted

\* ------------------------------------------------------- program constants
AGE_MAX == 120
SLIDER_MIN == 1
SLIDER_MAX == 5
SLIDER_DEFAULT == 3

CONSENT_CSV == "data/consent_data.csv"
DEMOGRAPHIC_CSV == "data/demographic_data.csv"
TASK_CSV == "data/task_data.csv"
EXIT_CSV == "data/exit_data.csv"
Paths == {CONSENT_CSV, DEMOGRAPHIC_CSV, TASK_CSV, EXIT_CSV}

\* ------------------------------------------------------------------ values
\* A Python scalar: kind is "str", "int", "float", "bool" or "nan"; n holds
\* the number (1/0 for True/False), s the text of a str.
PyStr(s) == [kind |-> "str", n |-> 0, s |-> s]
PyInt(n) == [kind |-> "int", n |-> n, s |-> <<>>]
PyFloat(n) == [kind |-> "float", n |-> n, s |-> <<>>]
PyBool(b) == [kind |-> "bool", n |-> IF b THEN 1 ELSE 0, s |-> <<>>]
PyNaN == [kind |-> "nan", n |-> 0, s |-> <<>>]
PyNone == [kind |-> "none", n |-> 0, s |-> <<>>]

\* Python truthiness (the test of line 132).
Truthy(v) ==
    CASE v.kind = "none" -> FALSE
      [] v.kind = "str" -> v.s # <<>>
      [] v.kind = "nan" -> TRUE
      [] OTHER -> v.n # 0

\* Python ==: numbers compare by value across int, float and bool, a str only
\* equals a str, and NaN equals nothing.
PyEq(a, b) ==
    CASE a.kind = "nan" \/ b.kind = "nan" -> FALSE
      [] a.kind = "none" \/ b.kind = "none" -> a.kind = b.kind
      [] a.kind = "str" \/ b.kind = "str" -> a.kind = b.kind /\ a.s = b.s
      [] OTHER -> a.n = b.n

\* -------------------------------------------------------------- formatting
Digits == <<"0", "1", "2", "3", "4", "5", "6", "7", "8", "9">>

RECURSIVE NatText(_)
NatText(n) ==
    IF n < 10 THEN <<Digits[n + 1]>>
    ELSE NatText(n \div 10) \o <<Digits[(n % 10) + 1]>>

\* str(int)
IntText(n) == IF n < 0 THEN <<"-">> \o NatText(-n) ELSE NatText(n)

\* repr(float) of a float with an integral value: 2.0 -> "2.0"
FloatText(n) == IntText(n) \o <<".", "0">>

TwoDigits(n) == <<Digits[(n \div 10) + 1], Digits[(n % 10) + 1]>>

\* time.strftime("%Y-%m-%d %H:%M:%S") at t seconds into the session's day;
\* the date part is the one token "Y-m-d".
strftime(t) ==
    <<"Y-m-d", " ">> \o TwoDigits((t \div 3600) % 24) \o <<":">>
        \o TwoDigits((t \div 60) % 60) \o <<":">> \o TwoDigits(t % 60)

\* The text DataFrame.to_csv writes for one cell.
CellText(v) ==
    CASE v.kind = "str" -> v.s
      [] v.kind = "int" -> IntText(v.n)
      [] v.kind = "float" -> FloatText(v.n)
      [] v.kind = "bool" -> IF v.n = 1 THEN <<"T", "r", "u", "e">>
                            ELSE <<"F", "a", "l", "s", "e">>
      [] OTHER -> <<>>

\* ----------------------------------------------------------------- parsing
\* The cell texts pandas.read_csv reads as missing (its default na_values).
NA_VALUES ==
    { <<>>, <<"N", "A">>, <<"N", "a", "N">>, <<"n", "a", "n">>,
      <<"N", "/", "A">>, <<"n", "/", "a">>, <<"N", "U", "L", "L">>,
      <<"n", "u", "l", "l">>, <<"N", "o", "n", "e">>, <<"<", "N", "A", ">">>,
      <<"#", "N", "/", "A">>, <<"#", "N", "A">>, <<"-", "N", "a", "N">>,
      <<"-", "n", "a", "n">> }

IsDigit(c) == \E d \in 1..10 : Digits[d] = c
DigitValue(c) == (CHOOSE d \in 1..10 : Digits[d] = c) - 1

IsNatText(s) == Len(s) >= 1 /\ \A i \in 1..Len(s) : IsDigit(s[i])

IsIntText(s) ==
    IF Len(s) >= 1 /\ s[1] \in {"-", "+"} THEN IsNatText(Tail(s)) ELSE IsNatText(s)

RECURSIVE NatValue(_)
NatValue(s) ==
    IF s = <<>> THEN 0
    ELSE 10 * NatValue(SubSeq(s, 1, Len(s) - 1)) + DigitValue(s[Len(s)])

IntValue(s) ==
    IF s[1] = "-" THEN -NatValue(Tail(s))
    ELSE IF s[1] = "+" THEN NatValue(Tail(s)) ELSE NatValue(s)

\* A decimal text whose fraction is zero ("2.0", "2."): the only floats the
\* program writes on a whole-second clock.
IsFloatText(s) ==
    \E i \in 1..Len(s) :
        /\ s[i] = "."
        /\ IsIntText(SubSeq(s, 1, i - 1))
        /\ \A j \in (i + 1)..Len(s) : s[j] = "0"

FloatValue(s) ==
    LET i == CHOOSE k \in 1..Len(s) : s[k] = "." IN IntValue(SubSeq(s, 1, i - 1))

TRUE_VALUES == { <<"T", "r", "u", "e">>, <<"T", "R", "U", "E">>, <<"t", "r", "u", "e">> }
FALSE_VALUES ==
    { <<"F", "a", "l", "s", "e">>, <<"F", "A", "L", "S", "E">>, <<"f", "a", "l", "s", "e">> }

\* The dtype read_csv infers for a column from all of its cells.
ColumnKind(cells) ==
    LET live == {i \in 1..Len(cells) : cells[i] \notin NA_VALUES}
        hasNA == live # 1..Len(cells)
    IN  IF \A i \in live : IsIntText(cells[i])
        THEN (IF hasNA THEN "float" ELSE "int")
        ELSE IF \A i \in live : IsIntText(cells[i]) \/ IsFloatText(cells[i])
        THEN "float"
        ELSE IF \A i \in live : cells[i] \in TRUE_VALUES \cup FALSE_VALUES
        THEN (IF hasNA THEN "boolobject" ELSE "bool")
        ELSE "object"

\* The value read_csv gives one cell of a column of the given dtype.
CellValue(kind, text) ==
    IF text \in NA_VALUES THEN PyNaN
    ELSE CASE kind = "int" -> PyInt(IntValue(text))
           [] kind = "float" ->
                PyFloat(IF IsIntText(text) THEN IntValue(text) ELSE FloatValue(text))
           [] kind \in {"bool", "boolobject"} -> PyBool(text \in TRUE_VALUES)
           [] OTHER -> PyStr(text)

\* -------------------------------------------------------------- DataFrames
\* pd.DataFrame(): no columns, no rows.
EmptyFrame == [columns |-> <<>>, rows |-> <<>>]

\* DataFrame.empty
IsEmpty(df) == Len(df.columns) = 0 \/ Len(df.rows) = 0

\* pd.read_csv on the rows of a file: the first row names the columns, every
\* other row is a record; a cell missing from a short row reads as missing.
read_csv(rows) ==
    IF rows = <<>> THEN EmptyFrame
    ELSE
      LET header == Head(rows)
          data == Tail(rows)
          cell(r, c) == IF c \in DOMAIN data[r] THEN data[r][c] ELSE <<>>
          column(c) == [r \in 1..Len(data) |-> cell(r, c)]
          kind == [c \in 1..Len(header) |-> ColumnKind(column(c))]
      IN  [columns |-> header,
           rows |-> [r \in 1..Len(data) |->
                       [c \in 1..Len(header) |-> CellValue(kind[c], cell(r, c))]]]

\* ------------------------------------------------------------ record store
\* A data_dict is the sequence of its <<key, value>> items in insertion order.
HeaderRow(data_dict) == [i \in 1..Len(data_dict) |-> <<data_dict[i][1]>>]
DataRow(data_dict) == [i \in 1..Len(data_dict) |-> CellText(data_dict[i][2])]

\* Faulty variants of save_to_csv: one that skips a row equal to the last row
\* of the file, one that always opens the file with mode='w', one that always
\* passes header=True.
save_to_csv_dedup(d, data_dict, csv_file) ==
    IF ~d[csv_file].isfile
    THEN [d EXCEPT ![csv_file] =
            [isfile |-> TRUE, rows |-> <<HeaderRow(data_dict), DataRow(data_dict)>>]]
    ELSE IF d[csv_file].rows[Len(d[csv_file].rows)] = DataRow(data_dict) THEN d
    ELSE [d EXCEPT ![csv_file].rows = Append(@, DataRow(data_dict))]

save_to_csv_truncating(d, data_dict, csv_file) ==
    [d EXCEPT ![csv_file] =
        [isfile |-> TRUE, rows |-> <<HeaderRow(data_dict), DataRow(data_dict)>>]]

save_to_csv_header_always(d, data_dict, csv_file) ==
    [d EXCEPT ![csv_file] =
        [isfile |-> TRUE,
         rows |-> d[csv_file].rows \o <<HeaderRow(data_dict), DataRow(data_dict)>>]]

\* save_to_csv(data_dict, csv_file) on the disk d: the disk afterwards.
save_to_csv(d, data_dict, csv_file) ==
    IF ~d[csv_file].isfile
    THEN [d EXCEPT ![csv_file] =
            [isfile |-> TRUE, rows |-> <<HeaderRow(data_dict), DataRow(data_dict)>>]]
    ELSE [d EXCEPT ![csv_file].rows = Append(@, DataRow(data_dict))]

\* load_from_csv(csv_file) on the disk d.
load_from_csv(d, csv_file) ==
    IF d[csv_file].isfile THEN read_csv(d[csv_file].rows) ELSE EmptyFrame

\* ------------------------------------------------------------------ report
RECURSIVE Sum(_)
Sum(seq) == IF seq = <<>> THEN 0 ELSE Head(seq) + Sum(Tail(seq))

\* df[name]: the values of the column called name, in row order.
Column(df, name) ==
    LET c == CHOOSE i \in 1..Len(df.columns) : df.columns[i] = <<name>>
    IN  [r \in 1..Len(df.rows) |-> df.rows[r][c]]

\* Series.mean() as the exact fraction sum/count over the values present.
Mean(values) ==
    LET present == SelectSeq(values, LAMBDA v : v.kind \in {"int", "float", "bool"})
    IN  [sum |-> Sum([i \in 1..Len(present) |-> present[i].n]), count |-> Len(present)]

\* The decimal text of h hundredths, h >= 0: 367 -> "3.67"
Fixed2(h) == NatText(h \div 100) \o <<".">> \o TwoDigits(h % 100)

\* Faulty variant of Format2f: the digits after the second decimal are cut off.
Format2f_truncated(m) ==
    IF m.count = 0 THEN <<"n", "a", "n">> ELSE Fixed2((100 * m.sum) \div m.count)

\* f"{m:.2f}" for m >= 0: the nearest hundredth, an exact tie going to the even
\* hundredth (a tie is exact in binary floating point when count is a power of 2).
Format2f(m) ==
    IF m.count = 0 THEN <<"n", "a", "n">>
    ELSE
      LET q == (100 * m.sum) \div m.count
          r == (100 * m.sum) % m.count
          h == IF 2 * r < m.count THEN q
               ELSE IF 2 * r > m.count THEN q + 1
               ELSE IF q % 2 = 0 THEN q ELSE q + 1
      IN  Fixed2(h)

\* The report block: each store is loaded afresh and shown unless it is empty
\* (st.info otherwise); the two averages are written when the exit frame is
\* not empty.
Render(d) ==
    LET df == [p \in Paths |-> load_from_csv(d, p)]
    IN  [shown |-> {p \in Paths : ~IsEmpty(df[p])},
         info |-> {p \in Paths : IsEmpty(df[p])},
         averages |->
            IF ~IsEmpty(df[EXIT_CSV])
            THEN <<Format2f(Mean(Column(df[EXIT_CSV], "satisfaction"))),
                   Format2f(Mean(Column(df[EXIT_CSV], "difficulty")))>>
            ELSE <<>>]

\* ----------------------------------------------------------- session state
NoState == [k \in {} |-> 0]
Put(ss, key, value) == [k \in DOMAIN ss \cup {key} |-> IF k = key THEN value ELSE ss[k]]
Del(ss, key) == [k \in DOMAIN ss \ {key} |-> ss[k]]

\* st.session_state.get(key, None), the stored number being a float
Get(ss, key) == IF key \in DOMAIN ss THEN PyFloat(ss[key]) ELSE PyNone

\* ---------------------------------------------------------------- handlers
\* Faulty variant of ConsentHandler: the record is saved whether or not the
\* box is checked.
ConsentHandler_unguarded(checked, t) ==
    [notice |-> IF checked THEN "success" ELSE "warning",
     save |-> << <<<<"timestamp", PyStr(strftime(t))>>,
                   <<"consent_given", PyBool(checked)>>>> >>]

\* The consent button: what it surfaces and the records it saves.
ConsentHandler(checked, t) ==
    IF ~checked
    THEN [notice |-> "warning", save |-> <<>>]
    ELSE [notice |-> "success",
          save |-> << <<<<"timestamp", PyStr(strftime(t))>>,
                        <<"consent_given", PyBool(checked)>>>> >>]

DemographicsRecord(t, name, age, occupation, familiarity) ==
    << <<"timestamp", PyStr(strftime(t))>>, <<"name", PyStr(name)>>,
       <<"age", PyInt(age)>>, <<"occupation", PyStr(occupation)>>,
       <<"familiarity", PyStr(familiarity)>> >>

\* "Start Task Timer"
StartTimer(ss, t) == Put(ss, "start_time", t)

\* "Stop Task Timer"
StopTimer(ss, t) ==
    IF "start_time" \in DOMAIN ss THEN Put(ss, "task_duration", t - ss["start_time"])
    ELSE ss

\* duration_val if duration_val else ""
DurationField(duration_val) == IF Truthy(duration_val) THEN duration_val ELSE PyStr(<<>>)

TaskRecord(ss, t, selected_task, success, notes) ==
    << <<"timestamp", PyStr(strftime(t))>>, <<"task_name", PyStr(selected_task)>>,
       <<"success", PyStr(success)>>,
       <<"duration_seconds", DurationField(Get(ss, "task_duration"))>>,
       <<"notes", PyStr(notes)>> >>

\* Faulty variant of CleanUp: only "start_time" is deleted.
CleanUp_start_only(ss) == Del(ss, "start_time")

\* The clean-up loop after a save.
CleanUp(ss) == Del(Del(ss, "start_time"), "task_duration")

ExitRecord(t, satisfaction, difficulty, open_feedback) ==
    << <<"timestamp", PyStr(strftime(t))>>, <<"satisfaction", PyInt(satisfaction)>>,
       <<"difficulty", PyInt(difficulty)>>, <<"open_feedback", PyStr(open_feedback)>> >>

\* ------------------------------------------------------------ widget inputs
\* Free text typed into a text_input or text_area: nothing (the widget's
\* default), a word, and a text made of digits.
Texts == { <<>>, <<"n", "o", "n", "e">>, <<"0", "7">> }
Tasks == { <<"Task 1: Example Task">> }
Slider == SLIDER_MIN..SLIDER_MAX

\* ------------------------------------------------------------------- state
VARIABLES
    now,            \* the clock, in seconds
    disk,           \* per path: whether the file exists, and its rows
    session_state,  \* st.session_state: "start_time", "task_duration"
    notice,         \* what the handler of the latest run surfaced
    report,         \* what the report block of the latest run rendered
    event,          \* history: the widget event that caused the latest run
    appended,       \* history: per path, the data_dicts passed to save_to_csv
    presses         \* history: the timer presses since the last task save

vars == <<now, disk, session_state, notice, report, event, appended, presses>>

NoPresses == [start |-> -1, stop |-> -1, stopAfterStart |-> FALSE]

Total == Sum([i \in 1..4 |->
            Len(appended[<<CONSENT_CSV, DEMOGRAPHIC_CSV, TASK_CSV, EXIT_CSV>>[i]])])

Init ==
    /\ now = 0
    /\ disk = [p \in Paths |-> [isfile |-> FALSE, rows |-> <<>>]]
    /\ session_state = NoState
    /\ notice = "none"
    /\ report = Render(disk)
    /\ event = "none"
    /\ appended = [p \in Paths |-> <<>>]
    /\ presses = NoPresses

RECURSIVE SaveAll(_, _, _)
SaveAll(d, records, csv_file) ==
    IF records = <<>> THEN d
    ELSE SaveAll(save_to_csv(d, Head(records), csv_file), Tail(records), csv_file)

\* One script run caused by the widget event ev: its handler saves `records`
\* to csv_file and surfaces `said`, then the report block renders.
Run(ev, records, csv_file, said) ==
    /\ event' = ev
    /\ disk' = SaveAll(disk, records, csv_file)
    /\ appended' = [appended EXCEPT ![csv_file] = @ \o records]
    /\ notice' = said
    /\ report' = Render(disk')

\* time passes
Tick ==
    /\ now < MaxTime
    /\ now' = now + 1
    /\ UNCHANGED <<disk, session_state, notice, report, event, appended, presses>>

\* a widget event that presses no button
Rerun ==
    /\ Run("none", <<>>, CONSENT_CSV, "none")
    /\ UNCHANGED <<now, session_state, presses>>

\* "Submit Consent", the checkbox being checked or not
SubmitConsent ==
    \E consent_given \in BOOLEAN :
        LET h == ConsentHandler(consent_given, now) IN
        /\ Total + Len(h.save) <= MaxRecords
        /\ Run(IF consent_given THEN "consent" ELSE "consent_unchecked",
               h.save, CONSENT_CSV, h.notice)
        /\ UNCHANGED <<now, session_state, presses>>

\* "Submit Demographics"
SubmitDemographics(names, ages, occupations, levels) ==
    \E name \in names, age \in ages, occupation \in occupations,
       familiarity \in levels :
        /\ Total < MaxRecords
        /\ Run("demographics",
               <<DemographicsRecord(now, name, age, occupation, familiarity)>>,
               DEMOGRAPHIC_CSV, "success")
        /\ UNCHANGED <<now, session_state, presses>>

PressStart ==
    /\ session_state' = StartTimer(session_state, now)
    /\ presses' = [presses EXCEPT !.start = now, !.stopAfterStart = FALSE]
    /\ Run("start", <<>>, TASK_CSV, "none")
    /\ UNCHANGED now

PressStop ==
    /\ session_state' = StopTimer(session_state, now)
    /\ presses' = [presses EXCEPT !.stop = now, !.stopAfterStart = (presses.start # -1)]
    /\ Run("stop", <<>>, TASK_CSV, "none")
    /\ UNCHANGED now

\* "Save Task Results"
SaveTask(outcomes, notes) ==
    \E selected_task \in Tasks, success \in outcomes, note \in notes :
        /\ Total < MaxRecords
        /\ Run("save", <<TaskRecord(session_state, now, selected_task, success, note)>>,
               TASK_CSV, "success")
        /\ session_state' = CleanUp(session_state)
        /\ presses' = NoPresses
        /\ UNCHANGED now

\* "Submit Exit Questionnaire"; forms holds <<satisfaction, difficulty>> pairs
SubmitExit(forms, feedbacks, cap) ==
    \E form \in forms, open_feedback \in feedbacks :
        /\ Total < cap
        /\ Run("exit", <<ExitRecord(now, form[1], form[2], open_feedback)>>,
               EXIT_CSV, "success")
        /\ UNCHANGED <<now, session_state, presses>>

\* The whole application, the forms filled from narrow sets.
Next ==
    \/ Tick
    \/ Rerun
    \/ SubmitConsent
    \/ SubmitDemographics({<<>>, <<"0", "7">>}, {AGE_MAX}, {<<>>},
                          {<<"I'm very familiar">>})
    \/ PressStart
    \/ PressStop
    \/ SaveTask({<<"Yes">>}, {<<>>})
    \/ SubmitExit({<<SLIDER_DEFAULT, SLIDER_DEFAULT>>}, {<<>>}, MaxRecords)

Spec == Init /\ [][Next]_vars

\* The exit questionnaire alone, the form filled freely.
NextExit ==
    \/ Tick
    \/ Rerun
    \/ SubmitExit(Slider \X Slider, Texts, MaxRecords)

SpecExit == Init /\ [][NextExit]_vars

\* The exit questionnaire and the report's averages: more records, the
\* sliders set to a few pairs that cover every slider value.
SliderPairs == { <<5, 2>>, <<4, 3>>, <<3, 4>>, <<1, 5>>, <<2, 1>>, <<3, 3>> }

NextReport ==
    \/ Tick
    \/ Rerun
    \/ SubmitExit(SliderPairs, {<<>>}, MaxExitRecords)

SpecReport == Init /\ [][NextReport]_vars

\* ----------------------------------------------------------------- claims
Loaded(p) == load_from_csv(disk, p)
RowCount(d, p) == Len(load_from_csv(d, p).rows)

\* The records of a frame, each as the sequence of its <<key, value>> items.
Records(df) ==
    [r \in 1..Len(df.rows) |->
        [c \in 1..Len(df.columns) |-> <<df.columns[c][1], df.rows[r][c]>>]]

SameRecord(a, b) ==
    /\ Len(a) = Len(b)
    /\ \A i \in 1..Len(a) : a[i][1] = b[i][1] /\ PyEq(a[i][2], b[i][2])

IsPrefix(a, b) == Len(a) <= Len(b) /\ \A i \in 1..Len(a) : a[i] = b[i]

SubmitEvents == {"consent", "demographics", "save", "exit"}
StoreOf(ev) ==
    CASE ev = "consent" -> CONSENT_CSV
      [] ev = "demographics" -> DEMOGRAPHIC_CSV
      [] ev = "save" -> TASK_CSV
      [] OTHER -> EXIT_CSV

\* A step that is one script run: the clock stands still while main() runs.
ScriptRun == now' = now

\* The duration_seconds cell of the last row of the task store of disk d.
DurationCell(d) == d[TASK_CSV].rows[Len(d[TASK_CSV].rows)][4]

\* C1: load on a store never appended to returns an empty result, and after N
\* appends load returns exactly N records, equal to the appended records in
\* append order.
LoadReturnsAppended ==
    \A p \in Paths :
        /\ appended[p] = <<>> => IsEmpty(Loaded(p))
        /\ appended[p] # <<>> =>
             /\ Len(Loaded(p).rows) = Len(appended[p])
             /\ \A i \in 1..Len(appended[p]) :
                    SameRecord(Records(Loaded(p))[i], appended[p][i])

\* C2: every valid submit of a stage makes that stage's store one record
\* longer and leaves the other stores alone, also when the same inputs are
\* submitted again.
SubmitAppendsOne ==
    [][ (ScriptRun /\ event' \in SubmitEvents) =>
            /\ RowCount(disk', StoreOf(event')) = RowCount(disk, StoreOf(event')) + 1
            /\ \A q \in Paths \ {StoreOf(event')} : disk'[q] = disk[q] ]_vars

RepeatedSubmitKept ==
    \E p \in Paths :
        /\ event \in SubmitEvents /\ p = StoreOf(event)
        /\ Len(disk[p].rows) = 3
        /\ disk[p].rows[2] = disk[p].rows[3]
        /\ RowCount(disk, p) = 2

\* Every record loaded from the consent store has consent_given True.
ConsentFlagsTrue ==
    LET df == Loaded(CONSENT_CSV) IN
    \A r \in 1..Len(df.rows) : df.rows[r][2] = PyBool(TRUE)

\* C3: Submit Consent with the box unchecked leaves the consent store as it
\* was and surfaces a warning; every record of the consent store has its
\* consent flag true.
UncheckedConsentAppendsNothing ==
    [][ /\ (ScriptRun /\ event' = "consent_unchecked") =>
              (disk' = disk /\ notice' = "warning")
        /\ ConsentFlagsTrue' ]_vars

UncheckedAfterConsent ==
    /\ event = "consent_unchecked"
    /\ notice = "warning"
    /\ RowCount(disk, CONSENT_CSV) = 1
    /\ CONSENT_CSV \in report.shown

\* C4: the duration Save Task Results writes is stop - start when start and
\* then stop were pressed (also when both fell on the same instant), and is
\* empty when stop or start was never pressed.
TaskDurationIsStopMinusStart ==
    [][ (ScriptRun /\ event' = "save") =>
            /\ presses.stopAfterStart =>
                   DurationCell(disk') = FloatText(presses.stop - presses.start)
            /\ (presses.stop = -1 \/ presses.start = -1) =>
                   DurationCell(disk') = <<>> ]_vars

\* C5: after every Save Task Results the session holds neither start_time nor
\* task_duration, and a save with no timer press since the save before it
\* writes an empty duration.
SaveClearsTimer ==
    [][ (ScriptRun /\ event' = "save") =>
            /\ session_state' = NoState
            /\ presses = NoPresses => DurationCell(disk') = <<>> ]_vars

SecondSaveEmpty ==
    /\ event = "save"
    /\ Len(disk[TASK_CSV].rows) = 3
    /\ disk[TASK_CSV].rows[2][4] # <<>>
    /\ disk[TASK_CSV].rows[3][4] = <<>>
    /\ session_state = NoState

\* C6: in every step the rows of every store are a prefix of its rows after
\* the step, and a run that submits nothing (a render of the report, a timer
\* button, an unchecked consent) leaves every store as it was.
AppendOnly ==
    [][ /\ \A p \in Paths :
              /\ disk[p].isfile => disk'[p].isfile
              /\ IsPrefix(disk[p].rows, disk'[p].rows)
        /\ event' \notin SubmitEvents => disk' = disk ]_vars

GrownAndRendered ==
    \E p \in Paths :
        /\ Len(disk[p].rows) = 3
        /\ event = "none"
        /\ p \in report.shown

\* C7: a store that exists is one header row, the keys of the first record
\* appended in their order, followed by one data row per record appended, at
\* least one; a store that does not exist has no rows.
HeaderThenRows ==
    \A p \in Paths :
        IF disk[p].isfile
        THEN /\ Len(appended[p]) >= 1
             /\ Len(disk[p].rows) = 1 + Len(appended[p])
             /\ disk[p].rows[1] =
                  [i \in 1..Len(appended[p][1]) |-> <<appended[p][1][i][1]>>]
             /\ \A r \in 2..Len(disk[p].rows) :
                    /\ disk[p].rows[r] # disk[p].rows[1]
                    /\ Len(disk[p].rows[r]) = Len(disk[p].rows[1])
        ELSE disk[p].rows = <<>> /\ appended[p] = <<>>

HeaderKeptOnSecondAppend ==
    \E p \in Paths : disk[p].isfile /\ Len(disk[p].rows) = 3

\* C8: every exit record appended reads back with its four field values
\* unchanged.
ExitRoundTrip ==
    \A i \in 1..Len(appended[EXIT_CSV]) :
        /\ i <= Len(Loaded(EXIT_CSV).rows)
        /\ SameRecord(Records(Loaded(EXIT_CSV))[i], appended[EXIT_CSV][i])

\* The numbers submitted as the k-th field of the records.
Field(records, k) == [i \in 1..Len(records) |-> records[i][k][2].n]

\* text shows a hundredth in 1.00..5.00 that is nearest to the mean of values.
NearestHundredth(text, values) ==
    \E h \in (100 * SLIDER_MIN)..(100 * SLIDER_MAX) :
        /\ text = Fixed2(h)
        /\ 2 * (h * Len(values) - 100 * Sum(values)) <= Len(values)
        /\ 2 * (100 * Sum(values) - h * Len(values)) <= Len(values)

\* C9: the report shows the two averages exactly when exit records exist;
\* each is the mean of its field over all exit records to the nearest
\* hundredth and lies in 1.00..5.00; satisfaction 5,4,3 with difficulty 2,3,4
\* shows 4.00 and 3.00; a store that does not exist is reported as having no
\* data.
AveragesShown ==
    LET sat == Field(appended[EXIT_CSV], 2)
        dif == Field(appended[EXIT_CSV], 3)
    IN  /\ (report.averages # <<>>) <=> (Len(appended[EXIT_CSV]) > 0)
        /\ (report.averages # <<>>) <=> (EXIT_CSV \in report.shown)
        /\ report.averages # <<>> =>
             /\ Len(report.averages) = 2
             /\ NearestHundredth(report.averages[1], sat)
             /\ NearestHundredth(report.averages[2], dif)
        /\ (sat = <<5, 4, 3>> /\ dif = <<2, 3, 4>>) =>
             report.averages = << <<"4", ".", "0", "0">>, <<"3", ".", "0", "0">> >>
        /\ \A p \in Paths :
             ~disk[p].isfile => (p \in report.info /\ p \notin report.shown)
        /\ report.info \cup report.shown = Paths

ExampleAverages ==
    /\ Field(appended[EXIT_CSV], 2) = <<5, 4, 3>>
    /\ Field(appended[EXIT_CSV], 3) = <<2, 3, 4>>
    /\ report.averages = << <<"4", ".", "0", "0">>, <<"3", ".", "0", "0">> >>

\* C10: a held task_duration implies a held start_time; a stop press with no
\* start_time held changes nothing; and the duration a save writes is empty
\* or the instant of the latest stop press minus the instant of the latest
\* start press.
TimerStateMachine ==
    [][ /\ "task_duration" \in DOMAIN session_state' =>
               "start_time" \in DOMAIN session_state'
        /\ (ScriptRun /\ event' = "stop" /\ "start_time" \notin DOMAIN session_state) =>
               (session_state' = session_state /\ disk' = disk)
        /\ (ScriptRun /\ event' = "save") =>
               \/ DurationCell(disk') = <<>>
               \/ /\ presses.start # -1
                  /\ presses.stop # -1
                  /\ DurationCell(disk') = FloatText(presses.stop - presses.start) ]_vars

====
